---- MODULE Spec2Model ----
(***************************************************************************)
(* Model of the chat-stream route handler, src/app/api/chat-stream/route.ts *)
(* (POST).  One request is followed from the credential check to the       *)
(* response and, for a streaming response, through the stream producer     *)
(* (ReadableStream start) until it has finished.                           *)
(*                                                                         *)
(* Strings the handler searches with String.includes are modelled as       *)
(* sequences of words, and includes as a search for a contiguous run of    *)
(* words.  A message is modelled by its JavaScript kind and its length,    *)
(* the only things the handler reads of it.  The timestamp of a Token      *)
(* event is not modelled.                                                  *)
(***************************************************************************)
EXTENDS Integers, Sequences, FiniteSets, TLC

VARIABLES
    apiKey,        \* process.env.GEMINI_API_KEY
    pc,            \* position of POST / of the stream producer
    body,          \* the request body, as request.json() reads it
    response,      \* the response POST returned
    modelName,     \* the model id given to getGenerativeModel
    modelCalls,    \* number of getGenerativeModel calls
    tools,         \* the tools array (line 102)
    useGroundingV, \* the destructured useGrounding, default applied
    calls,         \* the requestConfigs given to model.generateContentStream
    upstream,      \* the chunk texts pulled from result.stream so far
    writes,        \* every controller.enqueue attempt, with its outcome
    ctrl,          \* state of the stream controller
    transient,     \* whether an enqueue on a readable stream may fail too
    failures,      \* the errors the provider raised, in order
    escaped        \* whether an exception left POST or the producer

vars == <<apiKey, pc, body, response, modelName, modelCalls, tools,
          useGroundingV, calls, upstream, writes, ctrl, transient,
          failures, escaped>>

----------------------------------------------------------------------------
(* Bounds of the model *)

MaxChunks == 2
MaxImages == 2

(* line 74: message.length > 100000 *)
MaxMessageLength == 100000

----------------------------------------------------------------------------
(* Values *)

Undefined == "undefined"

\* process.env.GEMINI_API_KEY: unset, "", "   ", or a key
ApiKeys == {"<unset>", "", "   ", "key"}

\* A JavaScript value in the message field: its kind and, for a string, its
\* length.  "falsy" is null, 0, false or NaN; "object" is any truthy value
\* that is not a string (a number, an object, an array, true).
Message(kind, len) == [kind |-> kind, len |-> len]

MessageValues ==
    { Message(Undefined, 0), Message("falsy", 0), Message("object", 0) }
    \cup { Message("string", n) :
              n \in {0, 1, MaxMessageLength, MaxMessageLength + 1} }

\* A base64 image string: an optional data-URI prefix and the base64 payload
ImageString(dataUri, payload) == [dataUri |-> dataUri, payload |-> payload]

ImageStrings == { ImageString(TRUE, "QQ=="), ImageString(FALSE, "Qg==") }

RECURSIVE SeqsUpTo(_, _)
SeqsUpTo(S, n) ==
    IF n = 0 THEN { <<>> }
    ELSE LET shorter == SeqsUpTo(S, n - 1)
         IN  shorter \cup { Append(s, x) : s \in shorter, x \in S }

\* A field that may be absent: value is meaningful only when present
Absent == [present |-> FALSE, value |-> <<>>]
Present(v) == [present |-> TRUE, value |-> v]

\* image: absent or one image string (held as a sequence of length 1)
ImageFieldValues == { Absent, Present(<<ImageString(TRUE, "Qw==")>>) }

\* images: absent or an array of image strings
ImagesFieldValues ==
    { Absent } \cup { Present(s) : s \in SeqsUpTo(ImageStrings, MaxImages) }

UseGroundingValues == {Undefined, "true", "false"}
AiModelValues == {Undefined, "pro", "smart", "internet", "turbo"}

\* The request bodies.  kind "malformed" is a body that is not JSON, "null"
\* is JSON null, "scalar" a number, string, boolean or array (every
\* destructured field is undefined), "object" a JSON object.
ObjectBodies ==
    [ kind : {"object"}, message : MessageValues, image : ImageFieldValues,
      images : ImagesFieldValues, useGrounding : UseGroundingValues,
      aiModel : AiModelValues ]

EmptyBody(kind) ==
    [ kind |-> kind, message |-> Message(Undefined, 0),
      image |-> Absent, images |-> Absent,
      useGrounding |-> Undefined, aiModel |-> Undefined ]

Bodies ==
    ObjectBodies
    \cup { EmptyBody("malformed"), EmptyBody("null"), EmptyBody("scalar") }

\* Error messages, as sequences of words
MsgGrounding    == <<"Search", "Grounding", "is", "not", "supported">>
MsgRetrieval    == <<"google_search_retrieval", "is", "not", "supported">>
MsgQuota        == <<"quota", "exceeded">>
MsgNetwork      == <<"network", "unreachable">>
MsgApiKey       == <<"API", "key", "not", "valid">>
MsgOther        == <<"internal", "error">>
MsgDestructure  == <<"Cannot", "destructure", "property", "message", "of",
                     "body", "as", "it", "is", "null">>
MsgStreaming    == <<"Streaming", "error", "occurred">>

\* A thrown value: an Error with a message, or a value that is no Error
Thrown(isError, message) == [isError |-> isError, message |-> message]

\* A failure of the provider: what was thrown, and by which await
\* ("call1", "call2" or "stream")
Failure(error, at) == [error |-> error, at |-> at]

ProviderErrors ==
    { Thrown(TRUE, m) :
        m \in {MsgGrounding, MsgRetrieval, MsgQuota, MsgNetwork, MsgApiKey,
               MsgOther} }
    \cup { Thrown(FALSE, <<>>) }

ChunkTexts == {"", "a", "b"}

----------------------------------------------------------------------------
(* Pure helpers *)

\* String.prototype.includes, on sequences of words
Includes(s, p) ==
    \E i \in 1..(Len(s) - Len(p) + 1) : SubSeq(s, i, i + Len(p) - 1) = p

\* JavaScript truthiness of a message value
Truthy(m) == m.kind = "object" \/ (m.kind = "string" /\ m.len > 0)

\* Destructuring default (line 64): the default replaces undefined only
WithDefault(v, d) == IF v = Undefined THEN d ELSE v

\* Base64 decoding and encoding of the payloads the model uses
Base64Decode(payload) ==
    CASE payload = "QQ==" -> "A"
      [] payload = "Qg==" -> "B"
      [] payload = "Qw==" -> "C"

Base64Encode(bytes) ==
    CASE bytes = "A" -> "QQ=="
      [] bytes = "B" -> "Qg=="
      [] bytes = "C" -> "Qw=="

\* base64ToBuffer (lines 8-11): strip a data-URI prefix, decode the rest
base64ToBuffer(base64) ==
    LET base64Data == ImageString(FALSE, base64.payload)
    IN  [bytes |-> Base64Decode(base64Data.payload)]

\* lines 130-135 and 146-151
imagePart(imageData) ==
    LET imageBuffer == base64ToBuffer(imageData)
    IN  [inlineData |-> [data |-> Base64Encode(imageBuffer.bytes),
                         mimeType |-> "image/jpeg"]]

textPart(message) == [text |-> message]

\* Parts with the legacy image tested before the images array
PartsLegacyFirst(message, image, images) ==
    IF image.present
    THEN <<textPart(message), imagePart(image.value[1])>>
    ELSE IF images.present /\ Len(images.value) > 0
    THEN <<textPart(message)>>
            \o [i \in 1..Len(images.value) |-> imagePart(images.value[i])]
    ELSE <<textPart(message)>>

\* lines 126-163: the parts of the single user content
Parts(message, image, images) ==
    IF images.present /\ Len(images.value) > 0
    THEN <<textPart(message)>>
            \o [i \in 1..Len(images.value) |-> imagePart(images.value[i])]
    ELSE IF image.present
    THEN <<textPart(message), imagePart(image.value[1])>>
    ELSE <<textPart(message)>>

\* lines 14-16
googleSearchTool == [googleSearch |-> <<>>]

\* lines 138-141, 153-156, 159-162
requestConfig(message, image, images, toolList) ==
    [contents |-> <<[role |-> "user", parts |-> Parts(message, image, images)]>>,
     tools |-> toolList]

\* configWithoutTools that keeps only the text part of the contents
configTextOnly(config) ==
    [contents |-> <<[role |-> config.contents[1].role,
                     parts |-> <<config.contents[1].parts[1]>>]>>]

\* line 119: const { tools, ...configWithoutTools } = requestConfig, every
\* field of the request but tools
configWithoutTools(config) ==
    [field \in DOMAIN config \ {"tools"} |-> config[field]]

\* ModelNameFor with the standard model as the fallback
ModelNameForDefaultSmart(aiModel) ==
    IF aiModel = "pro" THEN "gemini-2.5-pro-preview-06-05"
    ELSE IF aiModel = "internet" THEN "gemini-2.0-flash-exp"
    ELSE "gemini-2.5-flash-preview-05-20"

\* lines 82-84
ModelNameFor(aiModel) ==
    IF aiModel = "pro" THEN "gemini-2.5-pro-preview-06-05"
    ELSE IF aiModel = "smart" THEN "gemini-2.5-flash-preview-05-20"
    ELSE "gemini-2.0-flash-exp"

\* ToolsFor without the test of the tier
ToolsForAnyTier(aiModel, useGrounding) ==
    IF useGrounding = "true" THEN <<googleSearchTool>> ELSE <<>>

\* line 102
ToolsFor(aiModel, useGrounding) ==
    IF aiModel = "internet" /\ useGrounding = "true"
    THEN <<googleSearchTool>>
    ELSE <<>>

\* line 21: !process.env.GEMINI_API_KEY
ApiKeyMissing(key) == key = "<unset>" \/ key = ""

\* String.prototype.trim on the keys the model uses
Trim(key) == IF key = "   " THEN "" ELSE key

\* ApiKeyBlank without the trim
ApiKeyBlankUntrimmed(key) == Len(key) = 0

\* line 34 (an environment value that is set is a string)
ApiKeyBlank(key) == Len(Trim(key)) = 0

\* line 66: !message
MessageMissing(message) == ~Truthy(message)

\* line 74
MessageInvalid(message) ==
    message.kind # "string" \/ message.len > MaxMessageLength

\* ShouldRetry that knows the first of the two messages only
ShouldRetryGroundingOnly(useGrounding, error) ==
    /\ useGrounding = "true"
    /\ error.isError
    /\ Includes(error.message, MsgGrounding)

\* lines 116-117: the retry condition of generateStreamWithFallback.
\* error.message?.includes(...) is undefined for a value without a message.
ShouldRetry(useGrounding, error) ==
    /\ useGrounding = "true"
    /\ error.isError
    /\ \/ Includes(error.message, MsgGrounding)
       \/ Includes(error.message, MsgRetrieval)

\* lines 234-251: the status the outer catch answers with
StatusFor(error) ==
    IF ~error.isError THEN 500
    ELSE IF Includes(error.message, <<"API", "key">>) THEN 401
    ELSE IF Includes(error.message, <<"quota">>)
            \/ Includes(error.message, <<"limit">>) THEN 429
    ELSE IF Includes(error.message, <<"network">>)
            \/ Includes(error.message, <<"fetch">>) THEN 503
    ELSE 500

\* ErrorEventMessage with the fixed text for every error
ErrorEventMessageGeneric(error) == MsgStreaming

\* line 205: the message the Error event carries
ErrorEventMessage(error) ==
    IF error.isError THEN error.message ELSE MsgStreaming

----------------------------------------------------------------------------
(* Responses and events *)

NoResponse == [kind |-> "none", status |-> 0]
JsonResponse(status) == [kind |-> "json", status |-> status]
\* line 222: new Response(stream, {headers}) has the default status 200
StreamResponse == [kind |-> "stream", status |-> 200]

TokenEvent(text) == [kind |-> "Token", text |-> <<text>>]
DoneEvent == [kind |-> "Done", text |-> <<>>]
ErrorEvent(message) == [kind |-> "Error", text |-> message]

\* One controller.enqueue attempt and whether it returned (ok) or threw
Write(event, ok) == [event |-> event, ok |-> ok]

\* controller.enqueue throws when the stream is no longer readable.
EnqueueOutcomes(c) ==
    IF c # "readable" THEN {FALSE}
    ELSE IF transient THEN BOOLEAN
    ELSE {TRUE}

----------------------------------------------------------------------------
(* The state after construction: a request has arrived, nothing has run *)

InitRequest ==
    /\ apiKey \in ApiKeys
    /\ pc = "start"
    /\ body \in Bodies
    /\ response = NoResponse
    /\ modelName = ""
    /\ modelCalls = 0
    /\ tools = <<>>
    /\ useGroundingV = Undefined
    /\ calls = <<>>
    /\ upstream = <<>>
    /\ writes = <<>>
    /\ ctrl = "none"
    /\ failures = <<>>
    /\ escaped = FALSE

\* controller.enqueue fails only on a stream that is no longer readable
Init == InitRequest /\ transient = FALSE

\* controller.enqueue may also fail on a readable stream (a transient fault,
\* as of a simulated controller) and succeed again afterwards
InitFaulty == InitRequest /\ transient \in BOOLEAN

\* What the pre-stream steps leave alone
StreamUntouched ==
    UNCHANGED <<tools, useGroundingV, calls, upstream, writes, ctrl,
                transient, failures>>

\* return NextResponse.json(..., {status})
ReturnJson(status) ==
    /\ response' = JsonResponse(status)
    /\ pc' = "returned"
    /\ UNCHANGED escaped

\* lines 230-265: the outer catch answers with the classified status; what
\* was thrown inside the try of line 19 does not leave POST
OuterCatch(error) == ReturnJson(StatusFor(error))

\* lines 20-44: the two credential checks
CheckApiKey ==
    /\ pc = "start"
    /\ IF ApiKeyMissing(apiKey) THEN ReturnJson(500)
       ELSE IF ApiKeyBlank(apiKey) THEN ReturnJson(500)
       ELSE pc' = "parse" /\ UNCHANGED <<response, escaped>>
    /\ UNCHANGED <<apiKey, body, modelName, modelCalls>>
    /\ StreamUntouched

\* lines 48-60: request.json() rejects
ParseFails ==
    /\ pc = "parse"
    /\ body.kind = "malformed"
    /\ ReturnJson(400)
    /\ UNCHANGED <<apiKey, body, modelName, modelCalls>>
    /\ StreamUntouched

\* line 49: request.json() gives a value
ParseBody ==
    /\ pc = "parse"
    /\ body.kind # "malformed"
    /\ pc' = "validate"
    /\ UNCHANGED <<apiKey, body, response, modelName, modelCalls, escaped>>
    /\ StreamUntouched

\* lines 64-79, and the outer catch (230-265) for the destructuring of null,
\* which throws a TypeError
ValidateMessage ==
    /\ pc = "validate"
    /\ IF body.kind = "null"
       THEN OuterCatch(Thrown(TRUE, MsgDestructure))
       ELSE IF MessageMissing(body.message) THEN ReturnJson(400)
       ELSE IF MessageInvalid(body.message) THEN ReturnJson(400)
       ELSE pc' = "model" /\ UNCHANGED <<response, escaped>>
    /\ UNCHANGED <<apiKey, body, modelName, modelCalls>>
    /\ StreamUntouched

\* lines 82-88: the model id is chosen and getGenerativeModel returns
GetModel ==
    /\ pc = "model"
    /\ modelName' = ModelNameFor(WithDefault(body.aiModel, "smart"))
    /\ modelCalls' = modelCalls + 1
    /\ pc' = "stream"
    /\ UNCHANGED <<apiKey, body, response, escaped>>
    /\ StreamUntouched

\* lines 82-99: getGenerativeModel throws
GetModelFails ==
    /\ pc = "model"
    /\ modelName' = ModelNameFor(WithDefault(body.aiModel, "smart"))
    /\ modelCalls' = modelCalls + 1
    /\ ReturnJson(500)
    /\ UNCHANGED <<apiKey, body>>
    /\ StreamUntouched

\* lines 101-163 and 222-228: the tools array, the stream, the part of start
\* that runs before its first await (the request is built and the first
\* generateContentStream call is made), and the streaming response
StartStream ==
    /\ pc = "stream"
    /\ LET useGrounding == WithDefault(body.useGrounding, "true")
           toolList == ToolsFor(WithDefault(body.aiModel, "smart"), useGrounding)
       IN  /\ useGroundingV' = useGrounding
           /\ tools' = toolList
           /\ calls' = <<requestConfig(body.message, body.image, body.images,
                                       toolList)>>
    /\ ctrl' = "readable"
    /\ response' = StreamResponse
    /\ pc' = "call1"
    /\ UNCHANGED <<apiKey, body, modelName, modelCalls, upstream, writes,
                   transient, failures, escaped>>

----------------------------------------------------------------------------
(* The stream producer: start(controller), lines 106-218 *)

\* What the producer's steps leave alone
RequestUntouched ==
    UNCHANGED <<apiKey, body, response, modelName, modelCalls, tools,
                useGroundingV, transient>>

\* InnerCatch with the completion signal sent as well (as from a finally
\* block that also closes the stream)
InnerCatchThenDone(error) ==
    /\ \E ok \in EnqueueOutcomes(ctrl) :
          /\ writes' = writes \o
                 <<Write(ErrorEvent(ErrorEventMessage(error)), ok),
                   Write(DoneEvent, ok)>>
          /\ ctrl' = IF ok THEN "closed" ELSE ctrl
    /\ pc' = "finished"
    /\ UNCHANGED escaped

\* InnerCatch without the try of lines 202-216: a throwing enqueue of the
\* Error event leaves the producer
InnerCatchUnguarded(error) ==
    /\ \E ok \in EnqueueOutcomes(ctrl) :
          /\ writes' = Append(writes,
                              Write(ErrorEvent(ErrorEventMessage(error)), ok))
          /\ ctrl' = IF ok THEN "closed" ELSE ctrl
          /\ escaped' = (escaped \/ ~ok)
    /\ pc' = "finished"

\* lines 198-217: the inner catch.  One Error event is enqueued and the
\* stream closed; a throwing enqueue is caught and nothing more is done.
InnerCatch(error) ==
    /\ \E ok \in EnqueueOutcomes(ctrl) :
          /\ writes' = Append(writes,
                              Write(ErrorEvent(ErrorEventMessage(error)), ok))
          /\ ctrl' = IF ok THEN "closed" ELSE ctrl
    /\ pc' = "finished"
    /\ UNCHANGED escaped

\* Completion that closes the stream without the Done event
CompletionWithoutDone(attempts) ==
    /\ writes' = attempts
    /\ ctrl' = IF ctrl = "readable" THEN "closed" ELSE ctrl
    /\ pc' = "finished"
    /\ UNCHANGED escaped

\* Completion that reports a failed Done enqueue with an Error event
CompletionThenError(attempts) ==
    /\ \E ok \in EnqueueOutcomes(ctrl) :
          /\ writes' = IF ok THEN Append(attempts, Write(DoneEvent, ok))
                       ELSE attempts \o <<Write(DoneEvent, FALSE),
                                          Write(ErrorEvent(MsgStreaming), FALSE)>>
          /\ ctrl' = IF ok THEN "closed" ELSE ctrl
    /\ pc' = "finished"
    /\ UNCHANGED escaped

\* lines 187-196: the completion signal after the relay loop, given the
\* enqueue attempts so far.  A throwing enqueue is caught, close is skipped.
Completion(attempts) ==
    /\ \E ok \in EnqueueOutcomes(ctrl) :
          /\ writes' = Append(attempts, Write(DoneEvent, ok))
          /\ ctrl' = IF ok THEN "closed" ELSE ctrl
    /\ pc' = "finished"
    /\ UNCHANGED escaped

\* line 113: the first generateContentStream call resolves
FirstCallResolves ==
    /\ pc = "call1"
    /\ pc' = "relay"
    /\ UNCHANGED <<calls, upstream, writes, ctrl, failures, escaped>>
    /\ RequestUntouched

\* lines 114-123: the first call rejects; the retry call is made without the
\* tools field, or the error goes on to the inner catch
FirstCallRejects ==
    /\ pc = "call1"
    /\ \E error \in ProviderErrors :
          /\ failures' = Append(failures, Failure(error, "call1"))
          /\ IF ShouldRetry(useGroundingV, error)
             THEN /\ calls' = Append(calls, configWithoutTools(calls[1]))
                  /\ pc' = "call2"
                  /\ UNCHANGED <<writes, ctrl, escaped>>
             ELSE /\ InnerCatch(error)
                  /\ UNCHANGED calls
    /\ UNCHANGED upstream
    /\ RequestUntouched

\* line 120: the retry call resolves
RetryResolves ==
    /\ pc = "call2"
    /\ pc' = "relay"
    /\ UNCHANGED <<calls, upstream, writes, ctrl, failures, escaped>>
    /\ RequestUntouched

\* RetryRejects with the retry condition applied to the retry as well
RetryRejectsAndRetries ==
    /\ pc = "call2"
    /\ \E error \in ProviderErrors :
          /\ failures' = Append(failures, Failure(error, "call2"))
          /\ IF ShouldRetry(useGroundingV, error) /\ Len(calls) < 3
             THEN /\ calls' = Append(calls, configWithoutTools(calls[1]))
                  /\ UNCHANGED <<pc, writes, ctrl, escaped>>
             ELSE /\ InnerCatch(error)
                  /\ UNCHANGED calls
    /\ UNCHANGED upstream
    /\ RequestUntouched

\* RetryRejects that, on the retry condition, starts
\* generateStreamWithFallback again with the original request
RetryRejectsAndRestarts ==
    /\ pc = "call2"
    /\ \E error \in ProviderErrors :
          IF ShouldRetry(useGroundingV, error)
          THEN /\ calls' = <<calls[1]>>
               /\ failures' = <<>>
               /\ pc' = "call1"
               /\ UNCHANGED <<writes, ctrl, escaped>>
          ELSE /\ failures' = Append(failures, Failure(error, "call2"))
               /\ InnerCatch(error)
               /\ UNCHANGED calls
    /\ UNCHANGED upstream
    /\ RequestUntouched

\* line 120: the retry call rejects; its error leaves
\* generateStreamWithFallback for the inner catch
RetryRejects ==
    /\ pc = "call2"
    /\ \E error \in ProviderErrors :
          /\ failures' = Append(failures, Failure(error, "call2"))
          /\ InnerCatch(error)
    /\ UNCHANGED <<calls, upstream>>
    /\ RequestUntouched

\* RelayChunk without the test of line 169: an empty text is enqueued too
RelayChunkNoEmptyTest ==
    /\ pc = "relay"
    /\ Len(upstream) < MaxChunks
    /\ \E chunkText \in ChunkTexts :
          /\ upstream' = Append(upstream, chunkText)
          /\ \E ok \in EnqueueOutcomes(ctrl) :
                LET attempts == Append(writes,
                                       Write(TokenEvent(chunkText), ok))
                IN  IF ok
                    THEN /\ writes' = attempts
                         /\ UNCHANGED <<ctrl, pc, escaped>>
                    ELSE Completion(attempts)
    /\ UNCHANGED <<calls, failures>>
    /\ RequestUntouched

\* RelayChunk with continue in place of the break of line 182
RelayChunkContinue ==
    /\ pc = "relay"
    /\ Len(upstream) < MaxChunks
    /\ \E chunkText \in ChunkTexts :
          /\ upstream' = Append(upstream, chunkText)
          /\ IF chunkText = ""
             THEN UNCHANGED writes
             ELSE \E ok \in EnqueueOutcomes(ctrl) :
                     writes' = Append(writes, Write(TokenEvent(chunkText), ok))
    /\ UNCHANGED <<pc, ctrl, escaped, calls, failures>>
    /\ RequestUntouched

\* lines 166-185 (and 187-196 after the break): result.stream gives a chunk.
\* An empty text is skipped; a Token enqueue that throws breaks the loop, and
\* the completion signal follows in the same turn.
RelayChunk ==
    /\ pc = "relay"
    /\ Len(upstream) < MaxChunks
    /\ \E chunkText \in ChunkTexts :
          /\ upstream' = Append(upstream, chunkText)
          /\ IF chunkText = ""
             THEN UNCHANGED <<writes, ctrl, pc, escaped>>
             ELSE \E ok \in EnqueueOutcomes(ctrl) :
                     LET attempts == Append(writes,
                                            Write(TokenEvent(chunkText), ok))
                     IN  IF ok
                         THEN /\ writes' = attempts
                              /\ UNCHANGED <<ctrl, pc, escaped>>
                         ELSE Completion(attempts)
    /\ UNCHANGED <<calls, failures>>
    /\ RequestUntouched

\* lines 166 and 187-196: result.stream is exhausted
StreamEnds ==
    /\ pc = "relay"
    /\ Completion(writes)
    /\ UNCHANGED <<calls, upstream, failures>>
    /\ RequestUntouched

\* lines 166-167 and 198-217: the iteration (or chunk.text()) throws
StreamRaises ==
    /\ pc = "relay"
    /\ \E error \in ProviderErrors :
          /\ failures' = Append(failures, Failure(error, "stream"))
          /\ InnerCatch(error)
    /\ UNCHANGED <<calls, upstream>>
    /\ RequestUntouched

\* The consumer cancels the response body while the producer is suspended:
\* the stream is no longer readable and every later enqueue throws.
ClientCancel ==
    /\ pc \in {"call1", "call2", "relay"}
    /\ ctrl = "readable"
    /\ ctrl' = "cancelled"
    /\ UNCHANGED <<pc, calls, upstream, writes, failures, escaped>>
    /\ RequestUntouched

Next ==
    \/ CheckApiKey
    \/ ParseFails
    \/ ParseBody
    \/ ValidateMessage
    \/ GetModel
    \/ GetModelFails
    \/ StartStream
    \/ FirstCallResolves
    \/ FirstCallRejects
    \/ RetryResolves
    \/ RetryRejects
    \/ RelayChunk
    \/ StreamEnds
    \/ StreamRaises
    \/ ClientCancel

Spec == Init /\ [][Next]_vars

\* The provider answers: a pending call resolves or rejects, and a
\* sequence of chunks gives its next chunk, ends or raises.  Nothing is
\* assumed of the consumer.
ProviderResponds ==
    /\ WF_vars(FirstCallResolves \/ FirstCallRejects)
    /\ WF_vars(RetryResolves \/ RetryRejects)
    /\ WF_vars(RelayChunk \/ StreamEnds \/ StreamRaises)

FairSpec == Spec /\ ProviderResponds

SpecFaulty == InitFaulty /\ [][Next]_vars

----------------------------------------------------------------------------
(* Derived views of the state *)

\* The events successfully enqueued, in order
RECURSIVE Enqueued(_)
Enqueued(attempts) ==
    IF attempts = <<>> THEN <<>>
    ELSE LET rest == Enqueued(SubSeq(attempts, 1, Len(attempts) - 1))
             last == attempts[Len(attempts)]
         IN  IF last.ok THEN Append(rest, last.event) ELSE rest

Events == Enqueued(writes)

Terminating(event) == event.kind \in {"Done", "Error"}

TypeOK ==
    /\ apiKey \in ApiKeys
    /\ pc \in {"start", "parse", "validate", "model", "stream", "call1",
               "call2", "relay", "finished", "returned"}
    /\ response.status \in {0, 200, 400, 401, 429, 500, 503}
    /\ modelCalls \in 0..1
    /\ Len(calls) <= 2
    /\ Len(upstream) <= MaxChunks
    /\ ctrl \in {"none", "readable", "cancelled", "closed"}

----------------------------------------------------------------------------
(* Vocabulary of the properties *)

\* The message passes both checks of lines 66-79
MessageValid(message) ==
    message.kind = "string" /\ message.len >= 1
    /\ message.len <= MaxMessageLength

\* The provider failed and the failure was not absorbed by the fallback: the
\* last call rejected without a retry, or the chunk iteration raised
UpstreamFailed ==
    /\ failures # <<>>
    /\ \/ failures[Len(failures)].at # "call1"
       \/ Len(calls) = 1

\* events is some Token events followed by one Done event
TokensThenDone(events) ==
    /\ events # <<>>
    /\ events[Len(events)] = DoneEvent
    /\ \A i \in 1..(Len(events) - 1) : events[i].kind = "Token"

\* A terminating event, if any, is the last of events
TerminatingIsLast(events) ==
    \A i \in 1..Len(events) : Terminating(events[i]) => i = Len(events)

\* The request config carries the search tool
HasSearchTool(config) ==
    /\ "tools" \in DOMAIN config
    /\ \E i \in 1..Len(config.tools) : config.tools[i] = googleSearchTool

----------------------------------------------------------------------------
(* C1: in every run at most one terminating event (Done or Error) is       *)
(* enqueued, and nothing is enqueued after it: a terminating event is the  *)
(* last enqueued event, so a stream never carries both Done and Error.     *)
C1_TerminatingEventIsLast == TerminatingIsLast(Events)

\* Tokens were relayed, then the upstream raised and the Error event closed
\* the stream
C1_Witness ==
    /\ pc = "finished"
    /\ Len(Events) >= 2
    /\ Events[1].kind = "Token"
    /\ Events[Len(Events)].kind = "Error"
    /\ ctrl = "closed"

----------------------------------------------------------------------------
(* C2, as claimed: every valid text-only request is answered with a stream *)
(* of zero or more Token events followed by exactly one Done event.        *)
ValidTextOnly ==
    /\ apiKey = "key"
    /\ body.kind = "object"
    /\ MessageValid(body.message)
    /\ ~body.image.present
    /\ ~body.images.present

C2_AsClaimed ==
    (pc = "finished" /\ ValidTextOnly) =>
        /\ response = StreamResponse
        /\ TokensThenDone(Events)
        /\ TerminatingIsLast(Events)

(* C2, amended: a valid text-only request whose model is constructed gets  *)
(* the streaming response, and when the provider does not fail (or fails   *)
(* only in a first call that the fallback retries) and the client does not *)
(* close the connection, the stream is zero or more Token events followed  *)
(* by exactly one Done event.                                              *)
C2_TextOnlyStream ==
    ValidTextOnly =>
        /\ pc = "returned" => response = JsonResponse(500) /\ modelCalls = 1
        /\ pc \in {"call1", "call2", "relay", "finished"}
              => response = StreamResponse
        /\ (pc = "finished" /\ ~UpstreamFailed /\ ctrl # "cancelled") =>
              /\ TokensThenDone(Events)
              /\ TerminatingIsLast(Events)
              /\ ctrl = "closed"

\* A text-only stream of two Token events and the Done event
C2_Witness ==
    /\ ValidTextOnly
    /\ pc = "finished"
    /\ ~UpstreamFailed
    /\ Len(Events) = 3
    /\ Events[3] = DoneEvent

----------------------------------------------------------------------------
(* C3: a request with a credential and a parseable body whose message is   *)
(* missing, empty, not a string or longer than 100,000 characters is       *)
(* answered 400 with no stream, no model construction and no generation    *)
(* call; a message of exactly 100,000 characters is not rejected.          *)
C3_InvalidMessageIs400 ==
    (apiKey = "key" /\ body.kind # "malformed"
        /\ pc \notin {"start", "parse", "validate"}) =>
        /\ ~MessageValid(body.message) =>
              /\ pc = "returned"
              /\ response = JsonResponse(400)
              /\ ctrl = "none"
              /\ modelCalls = 0
              /\ calls = <<>>
        /\ (body.message = Message("string", MaxMessageLength)
              /\ body.kind = "object") => response.status # 400

----------------------------------------------------------------------------
(* C4: with the credential absent, empty or blank the response is 500 and  *)
(* neither a model is constructed nor a generation call made, whatever the *)
(* body is: also for a malformed body or an invalid message.               *)
C4_NoCredentialIs500 ==
    (apiKey # "key" /\ pc # "start") =>
        /\ pc = "returned"
        /\ response = JsonResponse(500)
        /\ modelCalls = 0
        /\ calls = <<>>
        /\ ctrl = "none"

\* A malformed body sent with a blank credential has been answered
C4_Witness ==
    /\ apiKey = "   "
    /\ body.kind = "malformed"
    /\ pc = "returned"
    /\ response.status = 500

----------------------------------------------------------------------------
(* C5: generateContentStream is called at most twice per request; and for  *)
(* aiModel "internet" with useGrounding true, a first call failing with    *)
(* "Search Grounding is not supported" is retried exactly once, without    *)
(* the search tool, also when the retry fails in the same way.             *)
FirstCallFailedGrounding ==
    /\ body.aiModel = "internet"
    /\ useGroundingV = "true"
    /\ failures # <<>>
    /\ failures[1].at = "call1"
    /\ Includes(failures[1].error.message, MsgGrounding)

C5_RetryExactlyOnce ==
    /\ Len(calls) <= 2
    /\ FirstCallFailedGrounding =>
          /\ Len(calls) = 2
          /\ HasSearchTool(calls[1])
          /\ ~HasSearchTool(calls[2])
          /\ "tools" \notin DOMAIN calls[2]
    /\ (Len(failures) >= 2 /\ failures[2].at = "call2") => pc = "finished"

\* The retry failed with the same message, and the request has ended
C5_Witness ==
    /\ FirstCallFailedGrounding
    /\ Len(failures) = 2
    /\ failures[2].at = "call2"
    /\ Includes(failures[2].error.message, MsgGrounding)
    /\ pc = "finished"
    /\ Len(calls) = 2

----------------------------------------------------------------------------
(* C6: the search tool is in the first provider request if and only if     *)
(* aiModel is "internet" and useGrounding is true or omitted; for "pro"    *)
(* and "smart" (also by default) no provider request carries it.           *)
C6_SearchToolOnlyForInternet ==
    calls # <<>> =>
        /\ HasSearchTool(calls[1]) <=>
              /\ body.aiModel = "internet"
              /\ body.useGrounding \in {"true", Undefined}
        /\ body.aiModel \in {"pro", "smart", Undefined} =>
              \A i \in 1..Len(calls) : ~HasSearchTool(calls[i])

\* A pro request with useGrounding true whose first call has been made
C6_Witness ==
    /\ body.aiModel = "pro"
    /\ body.useGrounding = "true"
    /\ calls # <<>>
    /\ ~HasSearchTool(calls[1])

----------------------------------------------------------------------------
(* C7, as claimed: "pro" selects the premium model, "internet" the legacy  *)
(* model, and "smart", an omitted aiModel and any other value the standard *)
(* model.                                                                  *)
C7_AsClaimed ==
    modelCalls > 0 =>
        modelName = CASE body.aiModel = "pro" -> "gemini-2.5-pro-preview-06-05"
                      [] body.aiModel = "internet" -> "gemini-2.0-flash-exp"
                      [] OTHER -> "gemini-2.5-flash-preview-05-20"

(* C7, amended: "pro" selects the premium model, "smart" and an omitted    *)
(* aiModel the standard model, and "internet" and every other value the    *)
(* legacy model.                                                           *)
C7_ModelSelection ==
    modelCalls > 0 =>
        modelName = CASE body.aiModel = "pro" -> "gemini-2.5-pro-preview-06-05"
                      [] body.aiModel \in {"smart", Undefined}
                            -> "gemini-2.5-flash-preview-05-20"
                      [] OTHER -> "gemini-2.0-flash-exp"

\* A model has been constructed for an unrecognized aiModel
C7_Witness ==
    /\ modelCalls > 0
    /\ body.aiModel = "turbo"
    /\ modelName = "gemini-2.0-flash-exp"

----------------------------------------------------------------------------
(* C8: every provider request has one user content whose parts are the     *)
(* text part carrying the message, then one image/jpeg part per entry of   *)
(* images in array order when images is non-empty (image is then ignored), *)
(* else one image part when image is present, else nothing more.           *)
AttachedImages ==
    IF body.images.present /\ body.images.value # <<>>
    THEN body.images.value
    ELSE IF body.image.present THEN body.image.value
    ELSE <<>>

C8_ContentParts ==
    \A c \in 1..Len(calls) :
        /\ Len(calls[c].contents) = 1
        /\ calls[c].contents[1].role = "user"
        /\ LET parts == calls[c].contents[1].parts
           IN  /\ Len(parts) = 1 + Len(AttachedImages)
               /\ parts[1] = [text |-> body.message]
               /\ \A k \in 1..Len(AttachedImages) :
                     /\ DOMAIN parts[k + 1] = {"inlineData"}
                     /\ parts[k + 1].inlineData.mimeType = "image/jpeg"
                     /\ parts[k + 1].inlineData.data = AttachedImages[k].payload

\* Two different images sent along with a legacy image, in a request that
\* was retried
C8_Witness ==
    /\ Len(calls) = 2
    /\ body.image.present
    /\ body.images.present
    /\ Len(body.images.value) = 2
    /\ body.images.value[1] # body.images.value[2]
    /\ Len(calls[2].contents[1].parts) = 3

----------------------------------------------------------------------------
(* C9, as claimed: after a Token enqueue has failed, no further event      *)
(* write of any kind is attempted.                                         *)
C9_AsClaimed ==
    \A i \in 1..Len(writes) :
        (writes[i].event.kind = "Token" /\ ~writes[i].ok) => i = Len(writes)

(* C9, what the code does: after a Token enqueue has failed on a closed    *)
(* connection, no further Token or Error write is attempted; exactly one   *)
(* further write, of the Done event, is attempted, and it fails, so that   *)
(* nothing is enqueued after the failure point.                            *)
C9_OnlyFailedDoneAfterFailure ==
    \A i \in 1..Len(writes) :
        (writes[i].event.kind = "Token" /\ ~writes[i].ok
            /\ ctrl = "cancelled") =>
            /\ pc = "finished"
            /\ Len(writes) = i + 1
            /\ writes[i + 1] = Write(DoneEvent, FALSE)
            /\ Len(Events) = Len(Enqueued(SubSeq(writes, 1, i)))

\* The connection was closed after a first Token; the second Token failed
C9_Witness ==
    /\ Len(writes) = 3
    /\ writes[1].ok /\ writes[1].event.kind = "Token"
    /\ ~writes[2].ok /\ writes[2].event.kind = "Token"
    /\ ctrl = "cancelled"

----------------------------------------------------------------------------
(* C10: a failure of a provider call whose message contains "quota" is     *)
(* answered with status 429, "network" with 503, "API key" with 401, and   *)
(* any other with 500.                                                     *)
C10_UpstreamErrorStatus ==
    (pc = "finished" /\ UpstreamFailed
        /\ failures[Len(failures)].error.isError) =>
        LET message == failures[Len(failures)].error.message
        IN  response.status =
                CASE Includes(message, <<"quota">>) -> 429
                  [] Includes(message, <<"network">>) -> 503
                  [] Includes(message, <<"API", "key">>) -> 401
                  [] OTHER -> 500

----------------------------------------------------------------------------
(* C11: the Token events of a stream carry, in order, the texts of a       *)
(* prefix of the non-empty chunks pulled from the upstream: none is        *)
(* reordered, duplicated or skipped, an empty chunk gives no event; and    *)
(* while no write has failed the prefix is all of them.                    *)
RECURSIVE NonEmptyTexts(_)
NonEmptyTexts(chunks) ==
    IF chunks = <<>> THEN <<>>
    ELSE LET rest == NonEmptyTexts(SubSeq(chunks, 1, Len(chunks) - 1))
             last == chunks[Len(chunks)]
         IN  IF last = "" THEN rest ELSE Append(rest, last)

RECURSIVE TokenTexts(_)
TokenTexts(events) ==
    IF events = <<>> THEN <<>>
    ELSE LET rest == TokenTexts(SubSeq(events, 1, Len(events) - 1))
             last == events[Len(events)]
         IN  IF last.kind = "Token" THEN Append(rest, last.text[1]) ELSE rest

IsPrefix(s, t) == Len(s) <= Len(t) /\ SubSeq(t, 1, Len(s)) = s

AllWritesOk == \A i \in 1..Len(writes) : writes[i].ok

C11_TokensArePrefixOfChunks ==
    /\ IsPrefix(TokenTexts(Events), NonEmptyTexts(upstream))
    /\ AllWritesOk => TokenTexts(Events) = NonEmptyTexts(upstream)
    /\ \A i \in 1..Len(Events) :
          Events[i].kind = "Token" => Events[i].text # <<"">>

\* Two different texts were relayed in their order of arrival
C11_Witness ==
    /\ upstream = <<"b", "a">>
    /\ TokenTexts(Events) = <<"b", "a">>

----------------------------------------------------------------------------
(* C12: a request that passed validation and model construction gets the   *)
(* event-stream response; and when the provider fails (the first call      *)
(* without a retry, the retry, or the chunk iteration) while the writes    *)
(* succeed, the stream is the Token events so far, then exactly one Error  *)
(* event carrying the failure's message, then closed, with no Done event.  *)
C12_FailureBecomesErrorEvent ==
    /\ pc \in {"call1", "call2", "relay", "finished"}
          => response = StreamResponse
    /\ (pc = "finished" /\ UpstreamFailed /\ AllWritesOk) =>
          LET error == failures[Len(failures)].error
              n == Len(Events)
          IN  /\ n >= 1
              /\ Events[n] = ErrorEvent(IF error.isError THEN error.message
                                        ELSE MsgStreaming)
              /\ \A i \in 1..(n - 1) : Events[i].kind = "Token"
              /\ TokenTexts(Events) = NonEmptyTexts(upstream)
              /\ ctrl = "closed"

\* A Token was relayed, then the iteration raised a quota error
C12_Witness ==
    /\ pc = "finished"
    /\ Len(failures) = 1
    /\ failures[1] = Failure(Thrown(TRUE, MsgQuota), "stream")
    /\ Events = <<TokenEvent("a"), ErrorEvent(MsgQuota)>>
    /\ ctrl = "closed"

----------------------------------------------------------------------------
(* C13: POST returns exactly one response and nothing is thrown past it or *)
(* past the stream producer: a request never stops before its response is  *)
(* returned (and, for a stream, before the producer has finished), every   *)
(* failure before the stream gives a JSON response, a response once        *)
(* returned is never replaced, and a failed write of a Token, Done or      *)
(* Error event leaves nothing escaping.                                    *)
C13_OneResponseNothingEscapes ==
    /\ [](~escaped)
    /\ [](pc \in {"returned", "finished"} \/ ENABLED Next)
    /\ [](pc = "returned" => response.kind = "json")
    /\ [](pc \in {"call1", "call2", "relay", "finished"}
             => response.kind = "stream")
    /\ [][response # NoResponse => response' = response]_vars

\* The connection was closed before the provider failed: the Error event
\* could not be written, and the producer finished all the same
C13_Witness ==
    /\ pc = "finished"
    /\ ctrl = "cancelled"
    /\ Len(writes) >= 1
    /\ writes[Len(writes)].event.kind = "Error"
    /\ ~writes[Len(writes)].ok
    /\ ~escaped

----------------------------------------------------------------------------
(* C14: a second provider call is made if and only if the first call       *)
(* failed, useGrounding is true (or omitted) and the error message         *)
(* contains "Search Grounding is not supported" or                         *)
(* "google_search_retrieval is not supported", whatever aiModel is and     *)
(* whether or not the search tool was in the first call; any other failure *)
(* of the first call goes to the Error event after exactly one call.       *)
FirstCallFailed == failures # <<>> /\ failures[1].at = "call1"

RetryCondition ==
    /\ FirstCallFailed
    /\ body.useGrounding \in {"true", Undefined}
    /\ \/ Includes(failures[1].error.message, MsgGrounding)
       \/ Includes(failures[1].error.message, MsgRetrieval)

C14_RetryIffGroundingUnsupported ==
    calls # <<>> =>
        /\ Len(calls) = 2 <=> RetryCondition
        /\ (FirstCallFailed /\ ~RetryCondition) =>
              /\ pc = "finished"
              /\ Len(calls) = 1
              /\ Len(failures) = 1
              /\ writes[Len(writes)].event.kind = "Error"

\* A pro request, whose first call had no search tool, was retried on the
\* second of the two messages
C14_Witness ==
    /\ body.aiModel = "pro"
    /\ Len(calls) = 2
    /\ ~HasSearchTool(calls[1])
    /\ failures[1] = Failure(Thrown(TRUE, MsgRetrieval), "call1")

----------------------------------------------------------------------------
(* C15: the retry request has the contents of the first request, the same  *)
(* text part and the same image parts in the same order, and no tool list; *)
(* nothing else of the request is changed.                                 *)
C15_RetrySameContentsNoTools ==
    Len(calls) = 2 =>
        /\ calls[2].contents = calls[1].contents
        /\ DOMAIN calls[2] = DOMAIN calls[1] \ {"tools"}
        /\ "tools" \in DOMAIN calls[1]

\* A retried request with the search tool and two images
C15_Witness ==
    /\ Len(calls) = 2
    /\ HasSearchTool(calls[1])
    /\ Len(calls[1].contents[1].parts) = 3
    /\ Len(calls[2].contents[1].parts) = 3

----------------------------------------------------------------------------
(* C16: every body that parses as JSON but carries no message, JSON null,  *)
(* a number, a string or an array included, is answered 400 and no stream  *)
(* is opened.                                                              *)
C16_NoMessageIs400 ==
    (apiKey = "key" /\ body.kind \in {"null", "scalar", "object"}
        /\ body.message = Message(Undefined, 0)
        /\ pc \notin {"start", "parse", "validate"}) =>
        /\ pc = "returned"
        /\ response = JsonResponse(400)
        /\ ctrl = "none"

----------------------------------------------------------------------------
(* C17: on a finite upstream the stream producer terminates, whether or    *)
(* not the writes succeed; and when all of them succeeded it has enqueued  *)
(* exactly one terminating event, as the last event, and closed the        *)
(* stream.                                                                 *)
TerminatingCount(events) ==
    Cardinality({ i \in 1..Len(events) : Terminating(events[i]) })

C17_ProducerTerminates ==
    (pc = "call1") ~>
        /\ pc = "finished"
        /\ AllWritesOk =>
              /\ TerminatingCount(Events) = 1
              /\ Terminating(Events[Len(Events)])
              /\ ctrl = "closed"

\* The producer relayed as many chunks as the bound allows and finished
\* with the Done event
C17_Witness ==
    /\ pc = "finished"
    /\ AllWritesOk
    /\ Len(upstream) >= 2
    /\ TerminatingCount(Events) = 1
    /\ ctrl = "closed"

----------------------------------------------------------------------------
(* C18: after the first failed Token enqueue the relay loop pulls no       *)
(* further chunk and attempts no further Token enqueue: the failed Token   *)
(* is that of the last chunk pulled, the last Token attempt, and the       *)
(* producer has finished.  Nothing is sent to the provider either: a       *)
(* request carries contents and tools only, no cancellation signal, and    *)
(* the calls made are the one or two made before the relay began.          *)
TokenAttempts ==
    { i \in 1..Len(writes) : writes[i].event.kind = "Token" }

RelayStoppedAt(i) ==
    /\ pc = "finished"
    /\ \A j \in TokenAttempts : j <= i
    /\ upstream # <<>>
    /\ writes[i].event.text = <<upstream[Len(upstream)]>>
    /\ Cardinality(TokenAttempts) = Len(NonEmptyTexts(upstream))
    /\ \A f \in 1..Len(failures) : failures[f].at = "call1"

C18_NoPullAfterFailedToken ==
    /\ [](\A i \in TokenAttempts : ~writes[i].ok => RelayStoppedAt(i))
    /\ [](\A c \in 1..Len(calls) :
              DOMAIN calls[c] \subseteq {"contents", "tools"})
    /\ [][(pc \in {"relay", "finished"}) => (calls' = calls)]_vars

\* The first Token failed after one chunk, with room for more chunks
C18_Witness ==
    /\ pc = "finished"
    /\ Len(upstream) = 1
    /\ Len(writes) = 2
    /\ writes[1] = Write(TokenEvent("a"), FALSE)

----------------------------------------------------------------------------
(* C19: for any pattern of write failures, transient ones included, a Done *)
(* event is enqueued only if every non-empty chunk of the upstream was     *)
(* enqueued as a Token event before it.                                    *)
DoneEnqueued == \E i \in 1..Len(Events) : Events[i] = DoneEvent

C19_DoneOnlyAfterAllTokens ==
    DoneEnqueued => TokenTexts(Events) = NonEmptyTexts(upstream)

====
